---- MODULE Spec2Model ----
(***************************************************************************)
(* Model of the folder/file resolution and note-linking logic of           *)
(* jarvis_app.py.  The vault is a directory tree: a path is a sequence of  *)
(* names and a name (or a file content) is a sequence of one-character     *)
(* strings, so that prefix, suffix, substring, strip and split operations  *)
(* are computed character by character as the Python code computes them.   *)
(***************************************************************************)
EXTENDS Integers, Sequences, FiniteSets, TLC

VARIABLES dirs, order, files, pre, last, calls, running

vars == <<dirs, order, files, pre, last, calls, running>>

-----------------------------------------------------------------------------
(* Bounds of the model *)

\* number of handler calls explored from each initial vault
MaxCalls == 1

-----------------------------------------------------------------------------
(* Character-level string operations *)

DigitChars == <<"0", "1", "2", "3", "4", "5", "6", "7", "8", "9">>

IsDigit(c) == \E i \in 1..Len(DigitChars) : DigitChars[i] = c

DigitVal(c) == (CHOOSE i \in 1..Len(DigitChars) : DigitChars[i] = c) - 1

\* str.lower() on the characters of the model's alphabet
LowerCh(c) ==
    CASE c = "A" -> "a"
      [] c = "D" -> "d"
      [] c = "M" -> "m"
      [] c = "S" -> "s"
      [] OTHER -> c

Lower(s) == [i \in 1..Len(s) |-> LowerCh(s[i])]

StartsWith(s, p) == Len(p) <= Len(s) /\ SubSeq(s, 1, Len(p)) = p

EndsWith(s, x) == Len(x) <= Len(s) /\ SubSeq(s, Len(s) - Len(x) + 1, Len(s)) = x

\* Python's "t in s" on strings
Contains(s, t) == \E i \in 0..(Len(s) - Len(t)) : SubSeq(s, i + 1, i + Len(t)) = t

\* str.rstrip(chars): drop every trailing character that belongs to chars
RECURSIVE RStripChars(_, _)
RStripChars(s, chars) ==
    IF s # <<>> /\ s[Len(s)] \in chars
    THEN RStripChars(SubSeq(s, 1, Len(s) - 1), chars)
    ELSE s

RECURSIVE LStripChars(_, _)
LStripChars(s, chars) ==
    IF s # <<>> /\ s[1] \in chars
    THEN LStripChars(Tail(s), chars)
    ELSE s

WhiteSpace == {" ", "\n"}

\* str.strip()
Strip(s) == LStripChars(RStripChars(s, WhiteSpace), WhiteSpace)

\* int(digits)
RECURSIVE StrToInt(_)
StrToInt(s) ==
    IF s = <<>> THEN 0
    ELSE 10 * StrToInt(SubSeq(s, 1, Len(s) - 1)) + DigitVal(s[Len(s)])

\* str(n) for n >= 0, as an f-string formats it
RECURSIVE IntToStr(_)
IntToStr(n) ==
    IF n < 10 THEN <<DigitChars[n + 1]>>
    ELSE IntToStr(n \div 10) \o <<DigitChars[(n % 10) + 1]>>

\* length of the longest run of digits at the start of s
RECURSIVE DigitRun(_)
DigitRun(s) ==
    IF s # <<>> /\ IsDigit(s[1]) THEN 1 + DigitRun(Tail(s)) ELSE 0

MD == <<".", "m", "d">>

\* os.path.splitext on a name without separators: split at the last dot
\* unless only dots precede it
LastDot(s) ==
    IF \E i \in 1..Len(s) : s[i] = "."
    THEN CHOOSE i \in 1..Len(s) : s[i] = "." /\ \A j \in (i + 1)..Len(s) : s[j] # "."
    ELSE 0

SplitExt(s) ==
    LET d == LastDot(s) IN
    IF d > 0 /\ \E k \in 1..(d - 1) : s[k] # "."
    THEN [name |-> SubSeq(s, 1, d - 1), ext |-> SubSeq(s, d, Len(s))]
    ELSE [name |-> s, ext |-> <<>>]

-----------------------------------------------------------------------------
(* The vault: dirs is the set of directory paths (<<>> is the vault root), *)
(* files maps each file path to its content.                               *)

Root == <<>>

Join(folder, name) == Append(folder, name)

DirName(p) == SubSeq(p, 1, Len(p) - 1)

BaseName(p) == p[Len(p)]

\* ".." as a path component, and the directory that holds the vault: it
\* exists whenever the vault does and is reached as vault/..
DotDot == <<".", ".">>

OutsideDirs == {<<DotDot>>}

\* os.path.isdir
IsDir(ds, p) == p \in ds \cup OutsideDirs

IsFile(fs, p) == p \in DOMAIN fs

\* variant: os.path.isdir where the code calls os.path.exists
Exists_isdir(fs, ds, p) == IsDir(ds, p)

\* os.path.exists
Exists(fs, ds, p) == IsDir(ds, p) \/ IsFile(fs, p)

\* open(p, "w").write(c)
\* variant: the file is opened in append mode
WriteTo_append(fs, p, c) ==
    [q \in (DOMAIN fs) \cup {p} |-> IF q # p THEN fs[q]
                                     ELSE IF p \in DOMAIN fs THEN fs[p] \o c ELSE c]

WriteTo(fs, p, c) == [q \in (DOMAIN fs) \cup {p} |-> IF q = p THEN c ELSE fs[q]]

\* variant: the file is opened with "w" where the code opens it with "a"
AppendTo_truncate(fs, p, c) ==
    [q \in (DOMAIN fs) \cup {p} |-> IF q = p THEN c ELSE fs[q]]

\* open(p, "a").write(c)
AppendTo(fs, p, c) ==
    [q \in (DOMAIN fs) \cup {p} |-> IF q = p
                                    THEN (IF p \in DOMAIN fs THEN fs[p] ELSE <<>>) \o c
                                    ELSE fs[q]]

\* names returned by os.listdir(folder)
ListDir(fs, ds, folder) ==
    {BaseName(p) : p \in {q \in (DOMAIN fs) \cup ds : Len(q) = Len(folder) + 1
                                                      /\ DirName(q) = folder}}

-----------------------------------------------------------------------------
(* Folder resolution *)

\* the "no folder" result (Python None)
NonePath == << <<"None">> >>

\* sub-directory names of p in the platform's enumeration order ord
SubDirs(ds, p, ord) == SelectSeq(ord, LAMBDA n : Join(p, n) \in ds)

\* directories in the order os.walk(top) yields them (top-down)
RECURSIVE Walk(_, _, _)
RECURSIVE WalkEach(_, _, _, _)
Walk(ds, p, ord) == <<p>> \o WalkEach(ds, p, SubDirs(ds, p, ord), ord)

WalkEach(ds, p, names, ord) ==
    IF names = <<>> THEN <<>>
    ELSE Walk(ds, Join(p, Head(names)), ord) \o WalkEach(ds, p, Tail(names), ord)

\* sub-directories of p, in enumeration order, whose name contains target
MatchingSubDirs(ds, p, target, ord) ==
    SelectSeq(SubDirs(ds, p, ord), LAMBDA d : Contains(Lower(d), Lower(target)))

\* variant: the comparison keeps the case of the names
find_folder_case(ds, folder_name, ord) ==
    LET hit(r) == SelectSeq(SubDirs(ds, r, ord), LAMBDA d : Contains(d, folder_name))
        hits == SelectSeq(Walk(ds, Root, ord), LAMBDA r : hit(r) # <<>>)
    IN  IF hits = <<>> THEN NonePath
        ELSE Join(Head(hits), Head(hit(Head(hits))))

\* variant: each directory is tested when the traversal reaches it (pre-order)
find_folder_preorder(ds, folder_name, ord) ==
    LET hits == SelectSeq(Tail(Walk(ds, Root, ord)),
                          LAMBDA d : Contains(Lower(BaseName(d)), Lower(folder_name)))
    IN  IF hits = <<>> THEN NonePath ELSE Head(hits)

find_folder(ds, folder_name, ord) ==
    LET visited == Walk(ds, Root, ord)
        hits == SelectSeq(visited, LAMBDA r : MatchingSubDirs(ds, r, folder_name, ord) # <<>>)
    IN  IF hits = <<>> THEN NonePath
        ELSE Join(Head(hits), Head(MatchingSubDirs(ds, Head(hits), folder_name, ord)))

\* os.path.join(vault, folder_path) names the directory reached through the
\* components of folder_path: an empty component stays in place, ".." steps
\* to the parent and leaves the vault when there is nothing left to step
\* out of (every ".." of the paths explored follows an existing directory)
RECURSIVE Normalize(_, _)
Normalize(done, rest) ==
    IF rest = <<>> THEN done
    ELSE IF Head(rest) = <<>> THEN Normalize(done, Tail(rest))
    ELSE IF Head(rest) = DotDot /\ done # <<>> /\ done[Len(done)] # DotDot
    THEN Normalize(SubSeq(done, 1, Len(done) - 1), Tail(rest))
    ELSE Normalize(Append(done, Head(rest)), Tail(rest))

Candidate(folder_path) == Normalize(<<>>, folder_path)

\* variant: the expected location is not looked at first
resolve_directory_search(ds, folder_path, ord) ==
    find_folder(ds, BaseName(folder_path), ord)

\* variant: an unresolved folder falls back to the vault root
resolve_directory_root(ds, folder_path, ord) ==
    IF IsDir(ds, Candidate(folder_path)) THEN Candidate(folder_path)
    ELSE IF find_folder(ds, BaseName(folder_path), ord) = NonePath THEN Root
    ELSE find_folder(ds, BaseName(folder_path), ord)

resolve_directory(ds, folder_path, ord) ==
    IF IsDir(ds, Candidate(folder_path)) THEN Candidate(folder_path)
    ELSE find_folder(ds, BaseName(folder_path), ord)

\* filename is a path relative to the vault; the result is NonePath when the
\* folder part cannot be resolved
resolve_file_path(ds, filename, ord) ==
    LET folder_part == DirName(filename)
        base_name == BaseName(filename)
        resolved_folder == IF IsDir(ds, Candidate(folder_part)) THEN Candidate(folder_part)
                           ELSE resolve_directory(ds, folder_part, ord)
    IN  IF folder_part # <<>>
        THEN (IF resolved_folder = NonePath THEN NonePath ELSE Join(resolved_folder, base_name))
        ELSE filename

\* the content part of read_file's answer; found is FALSE for the
\* "I couldn't find ..." answer
read_file(fs, ds, filename, ord) ==
    LET file_path == resolve_file_path(ds, filename, ord)
    IN  IF file_path = NonePath \/ ~IsFile(fs, file_path)
        THEN [found |-> FALSE, content |-> <<>>]
        ELSE [found |-> TRUE, content |-> fs[file_path]]

-----------------------------------------------------------------------------
(* Vault Structure Walker.  The structure is the list of top-level nodes   *)
(* (top); a node is named by its path, folders maps a node to the list of  *)
(* the nodes nested in it and files to the names of its file entries.      *)

NoStructure == [top |-> <<>>, folders |-> <<>>, files |-> <<>>]

Hidden(n) == StartsWith(n, <<".">>)

\* dirs[:] = [d for d in dirs if not d.startswith(".")]
VisibleSubDirs(ds, p, ord) == SelectSeq(SubDirs(ds, p, ord), LAMBDA n : ~Hidden(n))

RECURSIVE WalkVisible(_, _, _)
RECURSIVE WalkVisibleEach(_, _, _, _)
WalkVisible(ds, p, ord) == <<p>> \o WalkVisibleEach(ds, p, VisibleSubDirs(ds, p, ord), ord)

WalkVisibleEach(ds, p, names, ord) ==
    IF names = <<>> THEN <<>>
    ELSE WalkVisible(ds, Join(p, Head(names)), ord)
            \o WalkVisibleEach(ds, p, Tail(names), ord)

\* names of the files of directory p that end in ".md"
MarkdownFiles(fs, p) ==
    {BaseName(q) : q \in {f \in DOMAIN fs : Len(f) = Len(p) + 1 /\ DirName(f) = p
                                           /\ EndsWith(BaseName(f), MD)}}

InSeq(x, seq) == \E i \in 1..Len(seq) : seq[i] = x

\* one iteration of the loop for directory r: the node is appended to its
\* parent's folders when the parent is found among the top-level nodes and
\* to the top-level list otherwise
AddNode(fs, st, r) ==
    LET parent_path == IF r = Root THEN Root ELSE DirName(r)
        nested == parent_path # Root /\ InSeq(parent_path, st.top)
        folders1 == [q \in (DOMAIN st.folders) \cup {r} |->
                        IF q = r THEN <<>> ELSE st.folders[q]]
    IN  [top |-> IF nested THEN st.top ELSE Append(st.top, r),
         folders |-> IF nested
                     THEN [folders1 EXCEPT ![parent_path] = Append(@, r)]
                     ELSE folders1,
         files |-> [q \in (DOMAIN st.files) \cup {r} |->
                      IF q = r THEN MarkdownFiles(fs, r) ELSE st.files[q]]]

RECURSIVE BuildStructure(_, _, _)
BuildStructure(fs, visited, st) ==
    IF visited = <<>> THEN st
    ELSE BuildStructure(fs, Tail(visited), AddNode(fs, st, Head(visited)))

\* variant: hidden directories are not skipped
get_vault_structure_all(fs, ds, ord) ==
    BuildStructure(fs, Walk(ds, Root, ord), NoStructure)

get_vault_structure(fs, ds, ord) ==
    BuildStructure(fs, WalkVisible(ds, Root, ord), NoStructure)

-----------------------------------------------------------------------------
(* Unique Name Generator *)

Underscore == <<"_">>

\* variant: the counter is halved in the name, so each numbered name is
\* tested twice
NumberedName_half(base_name, i) ==
    SplitExt(base_name).name \o Underscore \o IntToStr((i + 1) \div 2)
        \o SplitExt(base_name).ext

NumberedName(base_name, i) ==
    SplitExt(base_name).name \o Underscore \o IntToStr(i) \o SplitExt(base_name).ext

RECURSIVE Probe(_, _, _, _, _)
Probe(fs, ds, folder, base_name, i) ==
    IF ~Exists(fs, ds, Join(folder, NumberedName(base_name, i)))
    THEN Join(folder, NumberedName(base_name, i))
    ELSE Probe(fs, ds, folder, base_name, i + 1)

\* the paths the loop tests with os.path.exists from counter i on, in order
RECURSIVE ProbeLoop(_, _, _, _, _)
ProbeLoop(fs, ds, folder, base_name, i) ==
    IF ~Exists(fs, ds, Join(folder, NumberedName(base_name, i)))
    THEN <<Join(folder, NumberedName(base_name, i))>>
    ELSE <<Join(folder, NumberedName(base_name, i))>>
           \o ProbeLoop(fs, ds, folder, base_name, i + 1)

\* every path get_unique_filename tests with os.path.exists, in order
Probes(fs, ds, folder, base_name) ==
    IF ~Exists(fs, ds, Join(folder, base_name))
    THEN <<Join(folder, base_name)>>
    ELSE <<Join(folder, base_name)>> \o ProbeLoop(fs, ds, folder, base_name, 1)

\* variant: the probe loop stops after name_1 without testing it
get_unique_filename_once(fs, ds, folder, base_name) ==
    IF ~Exists(fs, ds, Join(folder, base_name))
    THEN Join(folder, base_name)
    ELSE Join(folder, NumberedName(base_name, 1))

\* variant: the direct path is returned without testing it
get_unique_filename_direct(fs, ds, folder, base_name) == Join(folder, base_name)

get_unique_filename(fs, ds, folder, base_name) ==
    IF ~Exists(fs, ds, Join(folder, base_name))
    THEN Join(folder, base_name)
    ELSE Probe(fs, ds, folder, base_name, 1)

-----------------------------------------------------------------------------
(* Note Writer / Auto-Linker *)

\* result string fragments, in the order the handler concatenates them
FolderNotFound == "Folder not found in vault."
NoteSaved == "Note saved as"
ErrorSaving == "Error saving note"
LinkAdded == " Link added in"
NoPrevious == " No previous note found to link from."
InvalidNumbering == " Invalid note numbering for linking."
ErrorLinking == " Error linking note"
FollowupCreated == " Followup note created as"
ErrorFollowup == " Error creating followup note"
ReturnedContent == "note_content"

\* the name standing for "no directory entry"
NoName == <<"None">>

\* the file operation of a call that raises an I/O error
Faults == {"none", "primary", "link", "stub", "fwdlink"}

\* note_title with ".md" appended unless it already ends in it
EnsureMd(title) == IF EndsWith(Lower(title), MD) THEN title ELSE title \o MD

\* re.match(r"(\d+)\.(\d+)", note_title)
NumberMatch(note_title) ==
    LET a == DigitRun(note_title)
        rest == SubSeq(note_title, a + 1, Len(note_title))
        ok == a >= 1 /\ Len(rest) >= 2 /\ rest[1] = "." /\ IsDigit(rest[2])
    IN  [ok |-> ok,
         major |-> IF ok THEN SubSeq(note_title, 1, a) ELSE <<>>,
         minor |-> IF ok THEN SubSeq(rest, 2, 1 + DigitRun(Tail(rest))) ELSE <<>>]

\* f"{major}.{prev_minor}"
PrevPrefix(m) == m.major \o <<".">> \o IntToStr(StrToInt(m.minor) - 1)

\* the directory entries the loop of handle_note_linking accepts
PrevCandidates(fs, ds, folder, prev_prefix) ==
    {f \in ListDir(fs, ds, folder) :
        StartsWith(Lower(f), Lower(prev_prefix)) /\ EndsWith(Lower(f), MD)}

\* f"\n\n[[{note_title.rstrip('.md').strip()}]]"
LinkText(note_title) ==
    <<"\n", "\n", "[", "[">> \o Strip(RStripChars(note_title, {".", "m", "d"})) \o <<"]", "]">>

\* variant: the loop does not stop at the first accepted entry
handle_note_linking_all(fs, ds, folder, note_title, m, first, fault) ==
    LET cands == IF StrToInt(m.minor) - 1 >= 0
                 THEN PrevCandidates(fs, ds, folder, PrevPrefix(m)) ELSE {}
        raises == fault = "link" \/ \E f \in cands : IsDir(ds, Join(folder, f))
    IN  IF StrToInt(m.minor) - 1 < 0
        THEN [fs |-> fs, msg |-> InvalidNumbering, cands |-> cands, prev |-> NoName, hit |-> FALSE]
        ELSE IF cands = {}
        THEN [fs |-> fs, msg |-> NoPrevious, cands |-> cands, prev |-> NoName, hit |-> FALSE]
        ELSE IF raises
        THEN [fs |-> fs, msg |-> ErrorLinking, cands |-> cands, prev |-> NoName,
              hit |-> fault = "link"]
        ELSE [fs |-> [q \in DOMAIN fs |->
                        IF DirName(q) = folder /\ BaseName(q) \in cands
                        THEN fs[q] \o LinkText(note_title) ELSE fs[q]],
              msg |-> LinkAdded, cands |-> cands, prev |-> first, hit |-> FALSE]

\* first is the first accepted entry in os.listdir order
handle_note_linking(fs, ds, folder, note_title, m, first, fault) ==
    LET cands == IF StrToInt(m.minor) - 1 >= 0
                 THEN PrevCandidates(fs, ds, folder, PrevPrefix(m)) ELSE {}
        raises == fault = "link" \/ IsDir(ds, Join(folder, first))
    IN  IF StrToInt(m.minor) - 1 < 0
        THEN [fs |-> fs, msg |-> InvalidNumbering, cands |-> cands, prev |-> NoName, hit |-> FALSE]
        ELSE IF cands = {}
        THEN [fs |-> fs, msg |-> NoPrevious, cands |-> cands, prev |-> NoName, hit |-> FALSE]
        ELSE IF raises
        THEN [fs |-> fs, msg |-> ErrorLinking, cands |-> cands, prev |-> NoName,
              hit |-> fault = "link"]
        ELSE [fs |-> AppendTo(fs, Join(folder, first), LinkText(note_title)),
              msg |-> LinkAdded, cands |-> cands, prev |-> first, hit |-> FALSE]

\* followup with surrounding whitespace and an enclosing [[ ]] removed and
\* the extension ensured
FollowupTitle(followup) ==
    LET t == Strip(followup)
        u == IF StartsWith(t, <<"[", "[">>) /\ EndsWith(t, <<"]", "]">>)
             THEN Strip(SubSeq(t, 3, Len(t) - 2)) ELSE t
    IN  EnsureMd(u)

\* followup_title[:-3]
DropExt(title) == SubSeq(title, 1, Len(title) - 3)

StubText(followup_title) == <<"#", " ">> \o DropExt(followup_title) \o <<"\n", "\n">>

ForwardLinkText(followup_title) ==
    <<"\n", "\n", "[", "[">> \o Strip(DropExt(followup_title)) \o <<"]", "]">>

\* variant: the stub is written to folder/followup_title without asking for a
\* unique name
handle_followup_note_overwrite(fs, ds, folder, followup, current_file_path, fault) ==
    LET followup_title == FollowupTitle(followup)
        followup_file_path == Join(folder, followup_title)
        fs1 == WriteTo(fs, followup_file_path, StubText(followup_title))
    IN  IF fault = "stub"
        THEN [fs |-> fs, msg |-> ErrorFollowup, stub |-> NonePath, hit |-> TRUE]
        ELSE IF fault = "fwdlink"
        THEN [fs |-> fs1, msg |-> ErrorFollowup, stub |-> followup_file_path, hit |-> TRUE]
        ELSE [fs |-> AppendTo(fs1, current_file_path, ForwardLinkText(followup_title)),
              msg |-> FollowupCreated, stub |-> followup_file_path, hit |-> FALSE]

\* variant: a failure of the link step removes the stub again
handle_followup_note_rollback(fs, ds, folder, followup, current_file_path, fault) ==
    LET followup_title == FollowupTitle(followup)
        followup_file_path == get_unique_filename(fs, ds, folder, followup_title)
        fs1 == WriteTo(fs, followup_file_path, StubText(followup_title))
    IN  IF fault = "stub"
        THEN [fs |-> fs, msg |-> ErrorFollowup, stub |-> NonePath, hit |-> TRUE]
        ELSE IF fault = "fwdlink"
        THEN [fs |-> fs, msg |-> ErrorFollowup, stub |-> followup_file_path, hit |-> TRUE]
        ELSE [fs |-> AppendTo(fs1, current_file_path, ForwardLinkText(followup_title)),
              msg |-> FollowupCreated, stub |-> followup_file_path, hit |-> FALSE]

handle_followup_note(fs, ds, folder, followup, current_file_path, fault) ==
    LET followup_title == FollowupTitle(followup)
        followup_file_path == get_unique_filename(fs, ds, folder, followup_title)
        fs1 == WriteTo(fs, followup_file_path, StubText(followup_title))
    IN  IF fault = "stub"
        THEN [fs |-> fs, msg |-> ErrorFollowup, stub |-> NonePath, hit |-> TRUE]
        ELSE IF fault = "fwdlink"
        THEN [fs |-> fs1, msg |-> ErrorFollowup, stub |-> followup_file_path, hit |-> TRUE]
        ELSE [fs |-> AppendTo(fs1, current_file_path, ForwardLinkText(followup_title)),
              msg |-> FollowupCreated, stub |-> followup_file_path, hit |-> FALSE]

\* The handler after generate_note returned note_content.  The result holds
\* the vault's files after the call, the fragments of the returned string,
\* the paths the call chose, the entries the linking loop could accept
\* (cands) and whether the injected I/O error was raised (hit).
handle_note_generation(fs, ds, ord, note_content, title, location, followup, first, fault) ==
    LET note_title == EnsureMd(title)
        folder == resolve_directory(ds, location, ord)
        unique_file_path == get_unique_filename(fs, ds, folder, note_title)
        fs1 == WriteTo(fs, unique_file_path, note_content)
        m == NumberMatch(note_title)
        lk == IF m.ok
              THEN handle_note_linking(fs1, ds, folder, note_title, m, first, fault)
              ELSE [fs |-> fs1, msg |-> "", cands |-> {}, prev |-> NoName, hit |-> FALSE]
        fu == IF followup # <<>>
              THEN handle_followup_note(lk.fs, ds, folder, followup, unique_file_path, fault)
              ELSE [fs |-> lk.fs, msg |-> "", stub |-> NonePath, hit |-> FALSE]
        none == [fs |-> fs, result |-> <<>>, folder |-> NonePath, path |-> NonePath,
                 cands |-> {}, prev |-> NoName, stub |-> NonePath, hit |-> FALSE]
    IN  IF location = <<>>
        THEN [none EXCEPT !.result = <<ReturnedContent>>]
        ELSE IF folder = NonePath
        THEN [none EXCEPT !.result = <<FolderNotFound>>]
        ELSE IF fault = "primary"
        THEN [none EXCEPT !.result = <<ErrorSaving>>, !.folder = folder, !.hit = TRUE]
        ELSE [fs |-> fu.fs,
              result |-> SelectSeq(<<NoteSaved, lk.msg, fu.msg>>, LAMBDA x : x # ""),
              folder |-> folder, path |-> unique_file_path,
              cands |-> lk.cands, prev |-> lk.prev, stub |-> fu.stub,
              hit |-> lk.hit \/ fu.hit]

-----------------------------------------------------------------------------
(* File operations *)

\* result string fragments of the file operations
FileUpdated == "I've updated"
ErrorWriting == "Error writing to"
FileAppended == "I've appended your content to"
ErrorCreating == "Error creating file"
ErrorAppending == "Error appending to"
AlreadyExists == "already exists. Use 'write' to update it instead."
FileCreated == "I've created"
AssignmentAdded == "to your to-do list."
ErrorAssignment == "I encountered an error adding your assignment"
ContentOf == "Here's the content of"
CouldNotFind == "I couldn't find"
MatchesFound == "I found matches in these files:"
NoMatches == "No matches found for your search."

\* the I/O error a file operation meets: none, at open(), or at write()
\* after the file was opened
FileFaults == {"none", "open", "write"}

\* the non-empty prefixes of path p
Ancestors(p) == {SubSeq(p, 1, k) : k \in 1..Len(p)}

\* os.makedirs(p, exist_ok=True) raises when p or one of its ancestors is a
\* file
MakedirsRaises(fs, p) == \E a \in Ancestors(p) : IsFile(fs, a)

Makedirs(ds, p) == ds \cup Ancestors(p)

\* open(p, "w") raises when p is a directory or its parent is none
OpenRaises(ds, p) == IsDir(ds, p) \/ ~IsDir(ds, DirName(p))

\* resolve_file_path, with the path under the vault root when it is None
TargetPath(ds, filename, ord) ==
    IF resolve_file_path(ds, filename, ord) = NonePath
    THEN Candidate(filename)
    ELSE resolve_file_path(ds, filename, ord)

\* variant: a failed write removes the file it was writing
write_file_cleanup(fs, ds, ord, filename, content, fault) ==
    LET file_path == TargetPath(ds, filename, ord)
        ds1 == Makedirs(ds, DirName(file_path))
    IN  IF MakedirsRaises(fs, DirName(file_path))
        THEN [fs |-> fs, ds |-> ds, result |-> <<ErrorWriting>>, path |-> file_path]
        ELSE IF OpenRaises(ds1, file_path) \/ fault # "none"
        THEN [fs |-> [q \in (DOMAIN fs) \ {file_path} |-> fs[q]], ds |-> ds1,
              result |-> <<ErrorWriting>>, path |-> file_path]
        ELSE [fs |-> WriteTo(fs, file_path, content), ds |-> ds1,
              result |-> <<FileUpdated>>, path |-> file_path]

write_file(fs, ds, ord, filename, content, fault) ==
    LET file_path == TargetPath(ds, filename, ord)
        ds1 == Makedirs(ds, DirName(file_path))
    IN  IF MakedirsRaises(fs, DirName(file_path))
        THEN [fs |-> fs, ds |-> ds, result |-> <<ErrorWriting>>, path |-> file_path]
        ELSE IF OpenRaises(ds1, file_path) \/ fault = "open"
        THEN [fs |-> fs, ds |-> ds1, result |-> <<ErrorWriting>>, path |-> file_path]
        ELSE IF fault = "write"
        THEN [fs |-> WriteTo(fs, file_path, <<>>), ds |-> ds1,
              result |-> <<ErrorWriting>>, path |-> file_path]
        ELSE [fs |-> WriteTo(fs, file_path, content), ds |-> ds1,
              result |-> <<FileUpdated>>, path |-> file_path]

append_file(fs, ds, ord, filename, content, fault) ==
    LET unresolved == resolve_file_path(ds, filename, ord) = NonePath
        file_path == TargetPath(ds, filename, ord)
        fs1 == IF unresolved /\ ~Exists(fs, ds, file_path)
               THEN WriteTo(fs, file_path, <<>>) ELSE fs
    IN  IF unresolved /\ ~Exists(fs, ds, file_path) /\ OpenRaises(ds, file_path)
        THEN [fs |-> fs, ds |-> ds, result |-> <<ErrorCreating>>, path |-> file_path]
        ELSE IF OpenRaises(ds, file_path) \/ fault # "none"
        THEN [fs |-> fs1, ds |-> ds, result |-> <<ErrorAppending>>, path |-> file_path]
        ELSE [fs |-> AppendTo(fs1, file_path, <<"\n">> \o content), ds |-> ds,
              result |-> <<FileAppended>>, path |-> file_path]

\* variant: the file is written whether or not it exists
create_file_overwrite(fs, ds, ord, filename, content, fault) ==
    LET r == write_file(fs, ds, ord, filename, content, fault)
    IN  [r EXCEPT !.result = IF r.result = <<FileUpdated>>
                             THEN <<FileCreated>> ELSE <<ErrorCreating>>]

create_file(fs, ds, ord, filename, content, fault) ==
    LET file_path == TargetPath(ds, filename, ord)
        ds1 == Makedirs(ds, DirName(file_path))
    IN  IF Exists(fs, ds, file_path)
        THEN [fs |-> fs, ds |-> ds, result |-> <<AlreadyExists>>, path |-> file_path]
        ELSE IF MakedirsRaises(fs, DirName(file_path))
        THEN [fs |-> fs, ds |-> ds, result |-> <<ErrorCreating>>, path |-> file_path]
        ELSE IF OpenRaises(ds1, file_path) \/ fault = "open"
        THEN [fs |-> fs, ds |-> ds1, result |-> <<ErrorCreating>>, path |-> file_path]
        ELSE IF fault = "write"
        THEN [fs |-> WriteTo(fs, file_path, <<>>), ds |-> ds1,
              result |-> <<ErrorCreating>>, path |-> file_path]
        ELSE [fs |-> WriteTo(fs, file_path, content), ds |-> ds1,
              result |-> <<FileCreated>>, path |-> file_path]

TodoName == <<"t", "o", "d", "o", ".", "m", "d">>

TodoHeading == <<"#", " ", "T", "o", "-", "D", "o", " ", "L", "i", "s", "t", "\n", "\n">>

add_assignment(fs, ds, assignment, fault) ==
    LET todo_file == Join(Root, TodoName)
        fs1 == IF Exists(fs, ds, todo_file) THEN fs ELSE WriteTo(fs, todo_file, TodoHeading)
    IN  IF fault = "open" /\ ~Exists(fs, ds, todo_file)
        THEN [fs |-> fs, ds |-> ds, result |-> <<ErrorAssignment>>, path |-> todo_file]
        ELSE IF IsDir(ds, todo_file) \/ fault # "none"
        THEN [fs |-> fs1, ds |-> ds, result |-> <<ErrorAssignment>>, path |-> todo_file]
        ELSE [fs |-> AppendTo(fs1, todo_file, <<"\n", "-", " ", "[", " ", "]", " ">> \o assignment),
              ds |-> ds, result |-> <<AssignmentAdded>>, path |-> todo_file]

\* paths, relative to the vault, of the ".md" files whose content holds the
\* keyword
search_files(fs, keyword) ==
    {q \in DOMAIN fs : EndsWith(BaseName(q), MD) /\ Contains(Lower(fs[q]), Lower(keyword))}

-----------------------------------------------------------------------------
(* Message handler *)

\* the actions the command parser's prompt allows
Actions ==
    {"search", "read", "write", "append", "create", "assignment",
     "generate_note", "settings", "vault", "chat"}

AssistantReply == "assistant_conversation response"
ChatReply == "chat completion"
RequestError == "I encountered an error processing your request"

\* the response to a message whose text the parser turns into a command with
\* the given action; prefixed: the text starts with "/cmd:".  Only the chat
\* action assigns result: with any other action the read of result raises,
\* and the outer handler answers with the error.
message(use_assistant, prefixed, action) ==
    IF use_assistant /\ ~prefixed
    THEN <<AssistantReply>>
    ELSE IF action = "chat" /\ use_assistant
    THEN <<AssistantReply>>
    ELSE IF action = "chat"
    THEN <<ChatReply>>
    ELSE <<RequestError>>

-----------------------------------------------------------------------------
(* Vaults and requests explored *)

dA == <<"a">>
dDs == <<"D", "s">>
dds2 == <<"d", "s", "2">>

\* directory trees with the enumeration order of their names
InitVaults ==
    { [dirs |-> {Root, <<dA>>, <<dA, dds2>>, <<dDs>>}, order |-> <<dA, dDs, dds2>>],
      [dirs |-> {Root, <<dDs>>, <<dds2>>}, order |-> <<dds2, dDs, dA>>] }

f80 == <<"8", ".", "0", ".", "m", "d">>
f81 == <<"8", ".", "1", ".", "m", "d">>
f810 == <<"8", ".", "1", "0", ".", "m", "d">>
f82 == <<"8", ".", "2", ".", "m", "d">>
f82u1 == <<"8", ".", "2", "_", "1", ".", "m", "d">>
f83 == <<"8", ".", "3", ".", "m", "d">>

Prior == <<"p">>

\* the notes of folder Ds in the initial vaults
InitNoteSets ==
    { {}, {f81}, {f81, f810}, {f810, f83}, {f80, f81, f82, f82u1} }

NotesIn(folder, names) == [p \in {Join(folder, n) : n \in names} |-> Prior]

Titles ==
    { <<"8", ".", "2">>,            \* numbered, previous note is 8.1
      <<"8", ".", "2", "d">>,       \* numbered, the name ends in a letter of ".md"
      <<"8", ".", "0", "1">>,       \* minor written with a leading zero
      <<"8", ".", "0">>,            \* no previous minor
      <<"n">> }                     \* no numeric prefix

Locations ==
    { <<>>,                         \* location absent
      <<dDs>>,                      \* exact directory
      <<<<"d", "s">>>>,             \* found by the case-insensitive search
      <<<<"z", "z">>>> }            \* matches no directory

Followups ==
    { <<>>,
      <<"8", ".", "3">>,
      <<"[", "[", "8", ".", "2", "]", "]">> }

Contents == { <<"g">> }

NoCall ==
    [op |-> "none", title |-> <<>>, location |-> <<>>, followup |-> <<>>,
     content |-> <<>>, fault |-> "none", result |-> <<>>, folder |-> NonePath,
     path |-> NonePath, prev |-> NoName, stub |-> NonePath,
     filename |-> <<>>, action |-> "", probes |-> <<>>, assistant |-> FALSE, prefixed |-> FALSE, structure |-> NoStructure]

Init ==
    /\ \E v \in InitVaults : dirs = v.dirs /\ order = v.order
    /\ \E names \in InitNoteSets : files = NotesIn(<<dDs>>, names)
    /\ pre = files
    /\ last = NoCall
    /\ calls = 0
    /\ running = <<>>

\* One "generate_note" request.  The generated text, the entry the linking
\* loop meets first and the file operation that raises are chosen by the
\* environment.
GenerateNote ==
    /\ calls < MaxCalls
    /\ \E title \in Titles, location \in Locations, followup \in Followups,
          content \in Contents, fault \in Faults :
         LET r0 == handle_note_generation(files, dirs, order, content, title, location,
                                          followup, NoName, fault)
         IN  \E first \in (IF r0.cands = {} THEN {NoName} ELSE r0.cands) :
               LET r == handle_note_generation(files, dirs, order, content, title,
                                               location, followup, first, fault)
               IN  /\ fault = "none" \/ r.hit
                   /\ files' = r.fs
                   /\ pre' = files
                   /\ last' = [NoCall EXCEPT
                               !.op = "generate_note", !.title = title,
                               !.location = location, !.followup = followup,
                               !.content = content, !.fault = fault,
                               !.result = r.result, !.folder = r.folder,
                               !.path = r.path, !.prev = r.prev, !.stub = r.stub]
    /\ calls' = calls + 1
    /\ UNCHANGED <<dirs, order, running>>

\* file names given to the file operations
Filenames ==
    { <<f81>>,                      \* in the vault root
      <<dDs, f81>>,                 \* in an existing folder
      <<<<"d", "s">>, f83>>,        \* folder found by the search
      <<<<"z", "z">>, f81>> }       \* folder that cannot be resolved

NewText == <<"c">>

\* the state after a file operation that returned r
Ran(op, filename, content, fault, r) ==
    /\ files' = r.fs
    /\ dirs' = r.ds
    /\ pre' = files
    /\ last' = [NoCall EXCEPT !.op = op, !.filename = filename, !.content = content,
                              !.fault = fault, !.result = r.result, !.path = r.path]
    /\ calls' = calls + 1
    /\ UNCHANGED <<order, running>>

WriteFile ==
    /\ calls < MaxCalls
    /\ \E filename \in Filenames, fault \in FileFaults :
          Ran("write_file", filename, NewText, fault,
              write_file(files, dirs, order, filename, NewText, fault))

AppendFile ==
    /\ calls < MaxCalls
    /\ \E filename \in Filenames, fault \in {"none", "open"} :
          Ran("append_file", filename, NewText, fault,
              append_file(files, dirs, order, filename, NewText, fault))

CreateFile ==
    /\ calls < MaxCalls
    /\ \E filename \in Filenames, fault \in FileFaults :
          Ran("create_file", filename, NewText, fault,
              create_file(files, dirs, order, filename, NewText, fault))

AddAssignment ==
    /\ calls < MaxCalls
    /\ \E fault \in {"none", "open"} :
          Ran("add_assignment", <<TodoName>>, NewText, fault,
              add_assignment(files, dirs, NewText, fault))

ReadFile ==
    /\ calls < MaxCalls
    /\ \E filename \in Filenames :
          LET r == read_file(files, dirs, filename, order)
          IN  Ran("read_file", filename, r.content, "none",
                  [fs |-> files, ds |-> dirs,
                   result |-> IF r.found THEN <<ContentOf>> ELSE <<CouldNotFind>>,
                   path |-> resolve_file_path(dirs, filename, order)])

\* a message whose command carries the file name, content, title and location
\* below; the handler touches no file
Message ==
    /\ calls < MaxCalls
    /\ \E use_assistant \in BOOLEAN, prefixed \in BOOLEAN, action \in Actions :
          last' = [NoCall EXCEPT !.op = "message", !.action = action,
                                 !.assistant = use_assistant, !.prefixed = prefixed,
                                 !.filename = <<f81>>, !.content = NewText,
                                 !.title = <<"n">>,
                                 !.result = message(use_assistant, prefixed, action)]
    /\ pre' = files
    /\ calls' = calls + 1
    /\ UNCHANGED <<dirs, order, files, running>>

Next ==
    \/ GenerateNote
    \/ Message
    \/ WriteFile
    \/ AppendFile
    \/ CreateFile
    \/ AddAssignment
    \/ ReadFile

Spec == Init /\ [][Next]_vars

TypeOK ==
    /\ Root \in dirs
    /\ calls \in 0..MaxCalls
    /\ DOMAIN pre \subseteq DOMAIN files

-----------------------------------------------------------------------------
(* Properties.  pre is the vault's files before the last call, files the   *)
(* files after it, last the request and what the handler returned.         *)

Called == last.op = "generate_note"

NoFault == last.fault = "none"

Mentions(msg) == \E i \in 1..Len(last.result) : last.result[i] = msg

Saved == Called /\ Mentions(NoteSaved)

LastTitle == EnsureMd(last.title)

LastMatch == NumberMatch(LastTitle)

\* the title is numbered <major>.<minor> with minor >= 1
HasPrevNumber == LastMatch.ok /\ StrToInt(LastMatch.minor) >= 1

\* names of the ".md" files of folder whose name starts with prefix, in fs
PrevNotes(fs, folder, prefix) ==
    {BaseName(p) : p \in {q \in DOMAIN fs : Len(q) = Len(folder) + 1 /\ DirName(q) = folder
                                           /\ StartsWith(Lower(BaseName(q)), Lower(prefix))
                                           /\ EndsWith(Lower(BaseName(q)), MD)}}

\* every file that existed before the call has its content of before
OldFilesUnchanged == \A p \in DOMAIN pre : p \in DOMAIN files /\ files[p] = pre[p]

\* base names the Unique Name Generator is asked for
ProbeNames ==
    {EnsureMd(t) : t \in Titles} \cup {FollowupTitle(f) : f \in Followups \ {<<>>}}

\* C1: for every folder and base name the path get_unique_filename returns
\* does not exist; it is folder/base when that is free and otherwise
\* folder/name_i.ext for the smallest i >= 1 whose name_i.ext does not exist.
C1_UniqueName ==
    \A folder \in dirs : \A base \in ProbeNames :
        LET r == get_unique_filename(files, dirs, folder, base)
        IN  /\ ~Exists(files, dirs, r)
            /\ IF ~Exists(files, dirs, Join(folder, base))
               THEN r = Join(folder, base)
               ELSE \E i \in 1..(Cardinality(DOMAIN files) + 1) :
                      /\ r = Join(folder, NumberedName(base, i))
                      /\ \A j \in 1..(i - 1) :
                            Exists(files, dirs, Join(folder, NumberedName(base, j)))

\* a call saved its note as name_2.ext because name.ext and name_1.ext existed
C1_Witness ==
    /\ Saved
    /\ IsFile(pre, Join(last.folder, LastTitle))
    /\ IsFile(pre, Join(last.folder, NumberedName(LastTitle, 1)))
    /\ last.path = Join(last.folder, NumberedName(LastTitle, 2))
    /\ ~IsFile(pre, last.path)

\* the location names no directory: neither exactly nor through a directory
\* name containing its last component
Unresolvable(ds, location) ==
    /\ location # <<>>
    /\ ~IsDir(ds, Candidate(location))
    /\ ~\E d \in ds \ {Root} : Contains(Lower(BaseName(d)), Lower(BaseName(location)))

\* C2: a call whose location cannot be resolved returns the folder-not-found
\* message and leaves the vault exactly as it was.
C2_NotFoundWritesNothing ==
    (Called /\ Unresolvable(dirs, last.location))
        => /\ last.result = <<FolderNotFound>>
           /\ files = pre

C2_Witness ==
    /\ Called
    /\ Unresolvable(dirs, last.location)
    /\ last.result = <<FolderNotFound>>
    /\ DOMAIN pre # {}

\* the forward link line for a followup request, stated from its title
ExpectedForwardLink(followup) ==
    <<"\n", "\n", "[", "[">> \o DropExt(FollowupTitle(followup)) \o <<"]", "]">>

\* file p of the vault received the backlink of the last call, once
GotBacklink(p) ==
    IF p \in DOMAIN pre
    THEN files[p] = pre[p] \o LinkText(LastTitle)
    ELSE /\ p = last.path
         /\ StartsWith(files[p], last.content \o LinkText(LastTitle))

\* C3: a title numbered <major>.<minor>, minor >= 1, written into a folder
\* holding at least one ".md" file that starts with <major>.<minor-1>: the
\* call appends the link line to exactly one such file, exactly once, and
\* every other file that existed before the call is unchanged.
C3_BacklinkExactlyOnce ==
    (Saved /\ NoFault /\ HasPrevNumber
        /\ PrevNotes(pre, last.folder, PrevPrefix(LastMatch)) # {})
        => /\ Cardinality({p \in DOMAIN files :
                              /\ DirName(p) = last.folder
                              /\ BaseName(p) \in PrevNotes(files, last.folder,
                                                           PrevPrefix(LastMatch))
                              /\ GotBacklink(p)}) = 1
           /\ \A p \in DOMAIN pre :
                 \/ files[p] = pre[p]
                 \/ /\ files[p] = pre[p] \o LinkText(LastTitle)
                    /\ BaseName(p) \in PrevNotes(pre, last.folder, PrevPrefix(LastMatch))

\* two earlier notes qualify and one of them received the link
C3_Witness ==
    /\ Saved /\ NoFault /\ HasPrevNumber
    /\ Cardinality(PrevNotes(pre, last.folder, PrevPrefix(LastMatch))) = 2
    /\ \E p \in DOMAIN pre : files[p] = pre[p] \o LinkText(LastTitle)
    /\ \E p \in DOMAIN pre : files[p] = pre[p]

\* the call appended its backlink to a note that existed before the call
LinkedOldNote ==
    /\ Saved /\ Mentions(LinkAdded)
    /\ last.prev # NoName
    /\ Join(last.folder, last.prev) \in DOMAIN pre

\* the link line the claim describes: two newlines and [[T]], T the title
\* without its ".md" extension
ExpectedBacklink(title) ==
    <<"\n", "\n", "[", "[">> \o DropExt(EnsureMd(title)) \o <<"]", "]">>

\* C4: the text appended to the previous note is exactly two newlines
\* followed by [[T]], T being the title with only the ".md" extension
\* removed.
C4_BacklinkText ==
    LinkedOldNote
        => files[Join(last.folder, last.prev)]
              = pre[Join(last.folder, last.prev)] \o ExpectedBacklink(last.title)

\* C5: the file that receives the backlink has the leading number
\* <major>.<minor-1> of the new note exactly, and is never the note the same
\* call wrote.
C5_BacklinkTarget ==
    (Saved /\ Mentions(LinkAdded) /\ last.prev # NoName)
        => /\ Join(last.folder, last.prev) # last.path
           /\ NumberMatch(last.prev).ok
           /\ StrToInt(NumberMatch(last.prev).major) = StrToInt(LastMatch.major)
           /\ StrToInt(NumberMatch(last.prev).minor) = StrToInt(LastMatch.minor) - 1

\* C6: a title numbered <major>.<minor>, minor >= 1, written into a resolved
\* folder with no ".md" file that starts with <major>.<minor-1>: the result
\* says that no previous note was found, the primary note is written and
\* every file that existed before the call is unchanged.
C6_LinkingSkipped ==
    (Saved /\ NoFault /\ HasPrevNumber
        /\ PrevNotes(pre, last.folder, PrevPrefix(LastMatch)) = {})
        => /\ Mentions(NoPrevious)
           /\ IsFile(files, last.path)
           /\ OldFilesUnchanged

\* new files of the call other than the primary note
NewStubs == {p \in DOMAIN files : p \notin DOMAIN pre /\ p # last.path}

\* the followup request yields a non-empty title
HasFollowupTitle ==
    last.followup # <<>> /\ DropExt(FollowupTitle(last.followup)) # <<>>

\* p is folder/F.md, or folder/F_i.md while folder/F.md was taken
IsStubPathFor(p, F) ==
    /\ DirName(p) = last.folder
    /\ \/ BaseName(p) = F
       \/ /\ \E i \in 1..(Cardinality(DOMAIN files) + 1) : BaseName(p) = NumberedName(F, i)
          /\ (IsFile(pre, Join(last.folder, F)) \/ last.path = Join(last.folder, F))

\* C7: for a non-empty followup title F the call creates a new file F.md, or
\* F_i.md when F.md exists, that begins with the heading "# F"; the primary
\* note ends with the link [[F]]; no file that existed is overwritten.
C7_FollowupStub ==
    (Saved /\ NoFault /\ HasFollowupTitle)
        => /\ \E p \in NewStubs :
                /\ IsStubPathFor(p, FollowupTitle(last.followup))
                /\ StartsWith(files[p],
                              <<"#", " ">> \o DropExt(FollowupTitle(last.followup)))
           /\ Cardinality(NewStubs) = 1
           /\ EndsWith(files[last.path], ExpectedForwardLink(last.followup))
           /\ \A p \in DOMAIN pre : p \in DOMAIN files /\ StartsWith(files[p], pre[p])

\* the stub was disambiguated because F.md existed before the call
C7_Witness ==
    /\ Saved /\ NoFault /\ HasFollowupTitle
    /\ IsFile(pre, Join(last.folder, FollowupTitle(last.followup)))
    /\ \E p \in NewStubs : BaseName(p) = NumberedName(FollowupTitle(last.followup), 1)

\* the saved note read back through resolve_file_path and read_file
ReadBack == read_file(files, dirs, last.path, order)

\* C8 as stated: reading the saved note back returns exactly the generated
\* content (looked at for the calls whose backlink, if any, went to an
\* earlier note).
C8_RoundTripIdentical ==
    (Saved /\ NoFault /\ Join(last.folder, last.prev) # last.path)
        => (ReadBack.found /\ ReadBack.content = last.content)

\* the link lines the call itself appended to its primary note
OwnLinks ==
    (IF Mentions(LinkAdded) /\ Join(last.folder, last.prev) = last.path
     THEN LinkText(LastTitle) ELSE <<>>)
    \o (IF Mentions(FollowupCreated) THEN ExpectedForwardLink(last.followup) ELSE <<>>)

\* C8 amended: reading the saved note back returns the generated content
\* followed by exactly the link lines the same call appended to that note
\* (the forward link of a followup, after the backlink when the linking step
\* chose the new note itself), hence the identical content when the call
\* appended none.
C8_RoundTrip ==
    Saved => (ReadBack.found /\ ReadBack.content = last.content \o OwnLinks)

\* a note saved through a fuzzy location with a followup is read back
C8_Witness ==
    /\ Saved /\ Mentions(FollowupCreated)
    /\ ~IsDir(dirs, Candidate(last.location))
    /\ ReadBack.found
    /\ ReadBack.content = last.content \o ExpectedForwardLink(last.followup)

\* new files of the call that hold the generated content
NewNotes ==
    {p \in DOMAIN files : p \notin DOMAIN pre /\ StartsWith(files[p], last.content)}

ReportsFailure == Mentions(FolderNotFound) \/ Mentions(ErrorSaving)

\* C9 as stated: every call that reports neither folder-not-found nor a write
\* error persisted the content as exactly one new note, also without location.
C9_AlwaysPersisted ==
    (Called /\ ~ReportsFailure) => Cardinality(NewNotes) = 1

\* C9 amended: every call with a non-empty location that reports neither
\* folder-not-found nor a write error persisted the generated content as
\* exactly one new note file in the resolved folder; a call whose location is
\* absent or empty writes nothing and returns the generated content.
C9_PersistedWithLocation ==
    /\ (Called /\ ~ReportsFailure /\ last.location # <<>>)
          => /\ Cardinality(NewNotes) = 1
             /\ NewNotes = {last.path}
             /\ DirName(last.path) = last.folder
             /\ IsDir(dirs, last.folder)
             /\ \A p \in DOMAIN pre : p \in DOMAIN files /\ StartsWith(files[p], pre[p])
    /\ (Called /\ last.location = <<>>)
          => /\ files = pre
             /\ last.result = <<ReturnedContent>>

\* a note whose name was taken is persisted under a new name
C9_Witness ==
    /\ Called /\ ~ReportsFailure /\ last.location # <<>>
    /\ IsFile(pre, Join(last.folder, LastTitle))
    /\ NewNotes = {last.path}

\* C10: when the linking or the followup step raises an I/O error after the
\* primary write, the error text follows "Note saved as" in the returned
\* string, the primary note stays with the written content, and what earlier
\* steps changed (the backlink, the stub) stays.
C10_NoRollback ==
    (Called /\ last.fault \in {"link", "stub", "fwdlink"})
        => /\ Head(last.result) = NoteSaved
           /\ last.fault = "link" => Mentions(ErrorLinking)
           /\ last.fault \in {"stub", "fwdlink"} => Mentions(ErrorFollowup)
           /\ IsFile(files, last.path)
           /\ StartsWith(files[last.path], last.content)
           /\ \A p \in DOMAIN pre : p \in DOMAIN files /\ StartsWith(files[p], pre[p])
           /\ (Mentions(LinkAdded) /\ last.prev # NoName)
                 => LET q == Join(last.folder, last.prev)
                    IN  files[q] = (IF q \in DOMAIN pre THEN pre[q] ELSE last.content)
                                    \o LinkText(LastTitle)
           /\ last.fault = "fwdlink"
                 => /\ IsFile(files, last.stub)
                    /\ files[last.stub] = StubText(FollowupTitle(last.followup))

\* the followup's link step failed after a backlink and the stub were written
C10_Witness ==
    /\ Called /\ last.fault = "fwdlink"
    /\ Mentions(LinkAdded) /\ Mentions(ErrorFollowup)
    /\ Join(last.folder, last.prev) \in DOMAIN pre
    /\ IsFile(files, last.stub)

\* C17: no operation deletes: every step of generate-note, create, write,
\* append, assignment and read keeps every file that existed before it, so
\* the set of files never shrinks along any sequence of operations.
C17_NoDeletion ==
    [][DOMAIN files \subseteq DOMAIN files']_vars

\* a write that failed after opening an existing file: the file is emptied,
\* and still there
C17_Witness ==
    /\ last.op = "write_file" /\ last.fault = "write"
    /\ last.path \in DOMAIN pre
    /\ pre[last.path] # <<>>
    /\ IsFile(files, last.path)

\* the operation the command of the last message names, applied to the vault
\* as it was, without I/O error
Operation ==
    CASE last.action = "search" ->
           [fs |-> pre, result |-> IF search_files(pre, last.content) = {}
                                   THEN <<NoMatches>> ELSE <<MatchesFound>>]
      [] last.action = "read" ->
           [fs |-> pre, result |-> IF read_file(pre, dirs, last.filename, order).found
                                   THEN <<ContentOf>> ELSE <<CouldNotFind>>]
      [] last.action = "write" ->
           write_file(pre, dirs, order, last.filename, last.content, "none")
      [] last.action = "append" ->
           append_file(pre, dirs, order, last.filename, last.content, "none")
      [] last.action = "create" ->
           create_file(pre, dirs, order, last.filename, last.content, "none")
      [] last.action = "assignment" ->
           add_assignment(pre, dirs, last.content, "none")
      [] last.action = "generate_note" ->
           handle_note_generation(pre, dirs, order, last.content, last.title,
                                  last.location, last.followup, NoName, "none")

\* C16: when the command parser ran and returned one of search, read, write,
\* append, create, assignment, generate_note, the handler has invoked that
\* operation (the vault is as the operation leaves it) and the response is
\* the operation's result string.
C16_Dispatch ==
    (/\ last.op = "message"
     /\ ~(last.assistant /\ ~last.prefixed)
     /\ last.action \in {"search", "read", "write", "append", "create",
                         "assignment", "generate_note"})
        => /\ last.result = Operation.result
           /\ files = Operation.fs

\* C22: create_file on a file name whose resolved path exists returns the
\* "already exists" message and changes no file; when create_file changes
\* the vault's files, the resolved path did not exist before and it is the
\* only file that differs.
C22_CreateOnlyNew ==
    last.op = "create_file"
        => /\ last.path \in DOMAIN pre
                 => last.result = <<AlreadyExists>> /\ files = pre
           /\ files # pre
                 => /\ last.path \notin DOMAIN pre
                    /\ DOMAIN files = DOMAIN pre \cup {last.path}
                    /\ \A p \in DOMAIN pre : files[p] = pre[p]

\* create_file asked for "ds/8.3.md", which the folder search resolves to an
\* existing note
C22_Witness ==
    /\ last.op = "create_file"
    /\ Len(last.filename) = 2 /\ last.filename[1] = <<"d", "s">>
    /\ last.path \in DOMAIN pre
    /\ last.path # last.filename
    /\ last.result = <<AlreadyExists>>

\* the link line that names the note stored at path p
LinkNaming(p) == <<"\n", "\n", "[", "[">> \o DropExt(BaseName(p)) \o <<"]", "]">>

\* C23: when the primary note was saved under a disambiguated name, the
\* backlink appended to the previous note names the file this call wrote;
\* when the followup stub was saved under a disambiguated name, the forward
\* link appended to the primary note names the stub this call wrote.
C23_LinksNameWritten ==
    (Saved /\ NoFault)
        => /\ (/\ last.path # Join(last.folder, LastTitle)
               /\ Join(last.folder, LastTitle) \in DOMAIN pre
               /\ Mentions(LinkAdded)
               /\ Join(last.folder, last.prev) \in DOMAIN pre)
                 => files[Join(last.folder, last.prev)] =
                        pre[Join(last.folder, last.prev)] \o LinkNaming(last.path)
           /\ (/\ last.stub # NonePath
               /\ last.stub # Join(last.folder, FollowupTitle(last.followup))
               /\ Join(last.folder, FollowupTitle(last.followup)) \in DOMAIN pre
               /\ Mentions(FollowupCreated))
                 => EndsWith(files[last.path], LinkNaming(last.stub))

\* C24: a generate-note call, whatever its title, followup and I/O error,
\* leaves every file that existed before it in place with its previous
\* content as a prefix of its content; the only text added to an existing
\* file is the backlink line on the previous note.
C24_AppendOnly ==
    Called
        => \A p \in DOMAIN pre :
              /\ p \in DOMAIN files
              /\ StartsWith(files[p], pre[p])
              /\ files[p] # pre[p]
                    => /\ p = Join(last.folder, last.prev)
                       /\ files[p] = pre[p] \o LinkText(LastTitle)

\* title and followup names were both taken and a previous note existed:
\* two files were created and the previous note grew by the backlink
C24_Witness ==
    /\ Saved /\ NoFault
    /\ Join(last.folder, LastTitle) \in DOMAIN pre
    /\ Join(last.folder, FollowupTitle(last.followup)) \in DOMAIN pre
    /\ last.stub # NonePath
    /\ Join(last.folder, last.prev) \in DOMAIN pre
    /\ files[Join(last.folder, last.prev)] # pre[Join(last.folder, last.prev)]
    /\ Cardinality((DOMAIN files) \ (DOMAIN pre)) = 2

\* C20: write_file or create_file given "folder/name" with a folder that
\* cannot be resolved creates the file directly in the vault root, and
\* creates no directory.
C20_RootFallback ==
    [][(/\ last'.op \in {"write_file", "create_file"}
        /\ Len(last'.filename) > 1
        /\ resolve_file_path(dirs, last'.filename, order) = NonePath
        /\ last'.result \in {<<FileUpdated>>, <<FileCreated>>})
          => /\ dirs' = dirs
             /\ IsFile(files', Join(Root, BaseName(last'.filename)))
             /\ files'[Join(Root, BaseName(last'.filename))] = last'.content]_vars

-----------------------------------------------------------------------------
(* Look-ups on a vault: the resolvers and the structure walker, applied to *)
(* directory trees of depth up to three with every enumeration order.      *)

dH == <<".", "h">>
dzz == <<"z", "z">>
fTxt == <<"y", ".", "t", "x", "t">>
fUpper == <<"Z", ".", "M", "D">>

LookupTrees ==
    { {Root, <<dA>>, <<dA, dds2>>, <<dDs>>},
      {Root, <<dDs>>, <<dds2>>},
      {Root, <<dA>>, <<dA, dDs>>, <<dA, dDs, dds2>>},
      {Root, <<dH>>, <<dH, dA>>, <<dDs>>, <<dDs, dA>>},
      {Root} }

LookupNames == {dA, dDs, dds2, dH}

\* every enumeration order of the directory names
Orders ==
    {o \in [1..Cardinality(LookupNames) -> LookupNames] :
        \A i, j \in 1..Cardinality(LookupNames) : o[i] = o[j] => i = j}

\* files put into every directory of a tree
LookupFileSets == { {}, {f81, fTxt, fUpper} }

LookupLocations ==
    { <<dDs>>,                      \* exact in most trees
      <<<<"d", "s">>>>,             \* differs in case
      <<<<"s">>>>,                  \* a substring
      <<dA, dds2>>,                 \* nested
      <<dA, <<"d", "s">>>>,         \* nested, last component searched
      <<dzz>>,                      \* matches nothing
      <<dzz, <<>>>>,                \* ends in a separator
      <<DotDot>> }                  \* the parent of the vault

LookupFilenames ==
    { <<f81>>, <<dDs, f81>>, <<<<"d", "s">>, f81>>, <<dzz, f81>>, <<DotDot, f81>> }

InitLookup ==
    /\ dirs \in LookupTrees
    /\ order \in Orders
    /\ \E names \in LookupFileSets :
          files = [p \in {Join(d, n) : d \in dirs, n \in names} |-> Prior]
    /\ pre = files
    /\ last = NoCall
    /\ calls = 0
    /\ running = <<>>

ResolveDirectory ==
    /\ calls < MaxCalls
    /\ \E location \in LookupLocations :
          last' = [NoCall EXCEPT !.op = "resolve_directory", !.location = location,
                                 !.folder = resolve_directory(dirs, location, order)]
    /\ pre' = files
    /\ calls' = calls + 1
    /\ UNCHANGED <<dirs, order, files, running>>

ResolveFilePath ==
    /\ calls < MaxCalls
    /\ \E filename \in LookupFilenames :
          last' = [NoCall EXCEPT !.op = "resolve_file_path", !.filename = filename,
                                 !.path = resolve_file_path(dirs, filename, order)]
    /\ pre' = files
    /\ calls' = calls + 1
    /\ UNCHANGED <<dirs, order, files, running>>

VaultStructure ==
    /\ calls < MaxCalls
    /\ last' = [NoCall EXCEPT !.op = "get_vault_structure",
                              !.structure = get_vault_structure(files, dirs, order)]
    /\ pre' = files
    /\ calls' = calls + 1
    /\ UNCHANGED <<dirs, order, files, running>>

NextLookup == ResolveDirectory \/ ResolveFilePath \/ VaultStructure

SpecLookup == InitLookup /\ [][NextLookup]_vars

ResolvedDir == last.op = "resolve_directory"

\* the request is not an existing directory, so the search decides
Searched == ResolvedDir /\ ~IsDir(dirs, Candidate(last.location))

\* directories under the vault root whose name contains the last component
\* of the request, whatever the case
NameMatches(ds, location) ==
    {d \in ds \ {Root} : Contains(Lower(BaseName(d)), Lower(BaseName(location)))}

\* C11: when root joined with P is an existing directory, resolve_directory
\* returns exactly that directory, whatever other directories contain P's
\* last component.
C11_ExactMatch ==
    (ResolvedDir /\ IsDir(dirs, Candidate(last.location)))
        => last.folder = Candidate(last.location)

\* the search would have answered with another directory
C11_Witness ==
    /\ ResolvedDir
    /\ last.location = <<dDs>>
    /\ last.folder = <<dDs>>
    /\ find_folder(dirs, dDs, order) = <<dds2>>

\* C12: when the exact candidate is no directory, the resolver returns a
\* directory under the root whose name contains the last component (case
\* ignored) whenever one exists, and None exactly when none exists.
C12_FuzzyMatch ==
    Searched
        => IF NameMatches(dirs, last.location) = {}
           THEN last.folder = NonePath
           ELSE last.folder \in NameMatches(dirs, last.location)

\* a request in lower case found the directory written with a capital
C12_Witness ==
    /\ Searched
    /\ last.location = <<<<"d", "s">>>>
    /\ last.folder = <<dDs>>
    /\ NameMatches(dirs, last.location) = {<<dDs>>}

\* p lies inside the vault
InsideVault(p) == \A i \in 1..Len(p) : p[i] # DotDot

\* C13: every directory the Directory Resolver returns and every path the
\* File Path Resolver returns lies inside the vault root.
C13_Containment ==
    /\ (ResolvedDir /\ last.folder # NonePath) => InsideVault(last.folder)
    /\ (last.op = "resolve_file_path" /\ last.path # NonePath) => InsideVault(last.path)

\* directories other than the root in pre-order (a directory, then the sub-tree
\* of each of its children in enumeration order)
PreOrder(ds, ord) == Tail(Walk(ds, Root, ord))

FirstInPreOrder(ds, location, ord) ==
    Head(SelectSeq(PreOrder(ds, ord), LAMBDA d : d \in NameMatches(ds, location)))

\* C19 as stated: among several matching directories the search returns the
\* first one in pre-order, a match inside an earlier sibling's sub-tree
\* before a matching later sibling.
C19_PreOrderFirst ==
    (Searched /\ NameMatches(dirs, last.location) # {})
        => last.folder = FirstInPreOrder(dirs, last.location, order)

\* position of directory d in the top-down traversal
VisitIndex(ds, ord, d) ==
    CHOOSE i \in 1..Len(Walk(ds, Root, ord)) : Walk(ds, Root, ord)[i] = d

\* position of name n in the enumeration order
NameIndex(ord, n) == CHOOSE i \in 1..Len(ord) : ord[i] = n

\* C19 amended: the search tests all children of a directory when the
\* top-down traversal visits that directory; it returns the match whose
\* parent is visited first and, among the matching children of that parent,
\* the first in enumeration order.  A match directly under the root is hence
\* returned before any match inside an earlier sibling's sub-tree.
C19_ParentOrderFirst ==
    (Searched /\ NameMatches(dirs, last.location) # {})
        => /\ last.folder \in NameMatches(dirs, last.location)
           /\ \A m \in NameMatches(dirs, last.location) :
                 \/ VisitIndex(dirs, order, DirName(m))
                       > VisitIndex(dirs, order, DirName(last.folder))
                 \/ /\ DirName(m) = DirName(last.folder)
                    /\ NameIndex(order, BaseName(m)) >= NameIndex(order, BaseName(last.folder))
           /\ (\E m \in NameMatches(dirs, last.location) : Len(m) = 1)
                 => Len(last.folder) = 1

\* the returned match is a later sibling although the earlier sibling's
\* sub-tree holds a match
C19_Witness ==
    /\ Searched
    /\ last.folder = <<dDs>>
    /\ FirstInPreOrder(dirs, last.location, order) = <<dA, dds2>>

Walked == last.op = "get_vault_structure"

\* directories that are not hidden and have no hidden ancestor
VisibleDirs == {d \in dirs : \A i \in 1..Len(d) : ~Hidden(d[i])}

\* C14: the node of every visible directory other than the root, at any
\* depth, is in the folders list of the node of its parent directory (looked
\* at for the directories whose parent is not the root).
C14_Nesting ==
    Walked
        => \A d \in {e \in VisibleDirs : Len(e) >= 2} :
              /\ DirName(d) \in DOMAIN last.structure.folders
              /\ InSeq(d, last.structure.folders[DirName(d)])

\* number of nodes of the structure, top-level or nested, built for d
Occurrences(st, d) ==
    Cardinality({i \in 1..Len(st.top) : st.top[i] = d})
    + Cardinality({x \in (DOMAIN st.folders) \X (1..Cardinality(dirs)) :
                      /\ x[2] <= Len(st.folders[x[1]])
                      /\ st.folders[x[1]][x[2]] = d})

\* C15: every visible directory is represented by exactly one node, no
\* hidden directory or descendant of one is represented, and the file list
\* of each node holds exactly the files of its directory that end in ".md".
C15_Coverage ==
    Walked
        => /\ \A d \in dirs :
                 Occurrences(last.structure, d) = IF d \in VisibleDirs THEN 1 ELSE 0
           /\ DOMAIN last.structure.folders = VisibleDirs
           /\ DOMAIN last.structure.files = VisibleDirs
           /\ \A d \in VisibleDirs :
                 last.structure.files[d]
                    = {n \in {BaseName(f) : f \in {g \in DOMAIN files : Len(g) >= 1}} :
                          /\ Join(d, n) \in DOMAIN files
                          /\ Len(n) >= 3
                          /\ SubSeq(n, Len(n) - 2, Len(n)) = <<".", "m", "d">>}

\* a vault with a hidden directory, a nested one and files of several kinds
C15_Witness ==
    /\ Walked
    /\ <<dH, dA>> \in dirs
    /\ <<dDs, dA>> \in dirs
    /\ last.structure.files[<<dDs, dA>>] = {f81}
    /\ IsFile(files, <<dDs, dA, fUpper>>)
    /\ IsFile(files, <<dH, f81>>)

\* C25: a folder path that does not exist and ends in a separator (its last
\* component is empty) resolves to None.
C25_EmptyComponent ==
    (Searched /\ last.location[Len(last.location)] = <<>>)
        => last.folder = NonePath

-----------------------------------------------------------------------------
(* Concurrent calls of the Note Writer: the development server handles     *)
(* each request in its own thread and the file system calls of a handler   *)
(* are separate steps, with nothing locking the vault between them.        *)

\* the requests running at the same time
Callers == {1, 2}

\* the note text generate_note produced for each caller
NoteOf == << <<"x">>, <<"y">> >>

RaceTitles == { <<"8", ".", "2">>, <<"n">> }

RaceLocations == { <<>>, <<dDs>>, <<<<"z", "z">>>> }

RaceFollowups == { <<>>, <<"8", ".", "3">> }

Idle ==
    [pc |-> "idle", title |-> <<>>, location |-> <<>>, followup |-> <<>>,
     content |-> <<>>, folder |-> NonePath, path |-> NonePath,
     replaced |-> FALSE, result |-> <<>>]

InitRace ==
    /\ \E v \in InitVaults : dirs = v.dirs /\ order = v.order
    /\ \E names \in InitNoteSets : files = NotesIn(<<dDs>>, names)
    /\ pre = files
    /\ last = NoCall
    /\ calls = 0
    /\ running = [c \in Callers |-> Idle]

\* caller c resolves the folder and asks the Unique Name Generator for a path
RaceCheck(c) ==
    /\ running[c].pc = "idle"
    /\ \E title \in RaceTitles, location \in RaceLocations, followup \in RaceFollowups :
          LET folder == resolve_directory(dirs, location, order)
              req == [Idle EXCEPT !.title = title, !.location = location,
                                  !.followup = followup, !.content = NoteOf[c]]
          IN  running' = [running EXCEPT ![c] =
                IF location = <<>>
                THEN [req EXCEPT !.pc = "done", !.result = <<ReturnedContent>>]
                ELSE IF folder = NonePath
                THEN [req EXCEPT !.pc = "done", !.result = <<FolderNotFound>>]
                ELSE [req EXCEPT !.pc = "checked", !.folder = folder,
                                 !.path = get_unique_filename(files, dirs, folder,
                                                              EnsureMd(title))]]
    /\ calls' = calls + 1
    /\ UNCHANGED <<dirs, order, files, pre, last>>

\* caller c opens the path it was given for writing and writes the note
RaceWrite(c) ==
    /\ running[c].pc = "checked"
    /\ files' = WriteTo(files, running[c].path, running[c].content)
    /\ running' = [running EXCEPT ![c].pc = "written",
                                  ![c].replaced = running[c].path \in DOMAIN files]
    /\ UNCHANGED <<dirs, order, pre, last, calls>>

\* caller c links the previous note and creates the followup, then returns
RaceFinish(c) ==
    /\ running[c].pc = "written"
    /\ LET r == running[c]
           note_title == EnsureMd(r.title)
           m == NumberMatch(note_title)
           cands == IF m.ok
                    THEN handle_note_linking(files, dirs, r.folder, note_title, m,
                                             NoName, "none").cands
                    ELSE {}
       IN  \E first \in (IF cands = {} THEN {NoName} ELSE cands) :
             LET lk == IF m.ok
                       THEN handle_note_linking(files, dirs, r.folder, note_title, m,
                                                first, "none")
                       ELSE [fs |-> files, msg |-> ""]
                 fu == IF r.followup # <<>>
                       THEN handle_followup_note(lk.fs, dirs, r.folder, r.followup,
                                                 r.path, "none")
                       ELSE [fs |-> lk.fs, msg |-> ""]
             IN  /\ files' = fu.fs
                 /\ running' = [running EXCEPT ![c].pc = "done", ![c].result =
                        SelectSeq(<<NoteSaved, lk.msg, fu.msg>>, LAMBDA x : x # "")]
    /\ UNCHANGED <<dirs, order, pre, last, calls>>

NextRace == \E c \in Callers : RaceCheck(c) \/ RaceWrite(c) \/ RaceFinish(c)

SpecRace == InitRace /\ [][NextRace]_vars

Wrote(c) == running[c].pc \in {"written", "done"}

\* the files created since the start that hold a caller's note
NotesWritten ==
    {p \in (DOMAIN files) \ (DOMAIN pre) :
        \E c \in Callers : StartsWith(files[p], NoteOf[c])}

\* C18: two interleaved calls can both be given the same path by the Unique
\* Name Generator before either writes; whenever both have then written, the
\* later write replaced the earlier note: the file starts with the later
\* caller's note, the earlier caller's note is in no file, and one file
\* holds a note for the two calls.
C18_LostUpdate ==
    \A c \in Callers : \A d \in Callers \ {c} :
        (Wrote(c) /\ Wrote(d) /\ running[c].path = running[d].path
          /\ running[c].replaced)
            => /\ ~running[d].replaced
               /\ running[c].title = running[d].title
               /\ running[c].folder = running[d].folder
               /\ StartsWith(files[running[c].path], NoteOf[c])
               /\ \A p \in DOMAIN files : ~StartsWith(files[p], NoteOf[d])
               /\ NotesWritten = {running[c].path}

\* both calls have returned "Note saved" for the same path
C18_Witness ==
    /\ \A c \in Callers : running[c].pc = "done" /\ running[c].result[1] = NoteSaved
    /\ running[1].path = running[2].path
    /\ running[1].location = running[2].location
    /\ running[1].title = running[2].title
    /\ \E c \in Callers : running[c].replaced
    /\ Cardinality(NotesWritten) = 1

-----------------------------------------------------------------------------
(* The Unique Name Generator on folders holding up to four entries, with   *)
(* up to three names in a row taken.                                       *)

fN == <<"n">>
fN1 == <<"n", "_", "1">>
fNmd == <<"n", ".", "m", "d">>
fN1md == <<"n", "_", "1", ".", "m", "d">>
fN2md == <<"n", "_", "2", ".", "m", "d">>

\* the folders asked
UniqueFolders == {Root, <<dDs>>}

\* the files a folder may hold
UniqueFileNames == {fN, fNmd, fN1md, fN2md}

\* with or without a directory named n_1 in the folder
UniqueDirNames == {{}, {fN1}}

\* base names asked; ".." exists in every directory without being one of its
\* entries, and is asked at the vault root
UniqueBaseNames(folder) ==
    {fN, fNmd, fN1md} \cup (IF folder = Root THEN {DotDot} ELSE {})

InitUnique ==
    /\ order = <<dDs>>
    /\ \E folder \in UniqueFolders, names \in SUBSET UniqueFileNames,
          subs \in UniqueDirNames :
          /\ dirs = {Root, folder} \cup {Join(folder, n) : n \in subs}
          /\ files = [p \in {Join(folder, n) : n \in names} |-> Prior]
    /\ pre = files
    /\ last = NoCall
    /\ calls = 0
    /\ running = <<>>

UniqueFilename ==
    /\ calls < MaxCalls
    /\ \E folder \in UniqueFolders : \E base_name \in UniqueBaseNames(folder) :
          last' = [NoCall EXCEPT !.op = "get_unique_filename", !.folder = folder,
                                 !.title = base_name,
                                 !.path = get_unique_filename(files, dirs, folder, base_name),
                                 !.probes = Probes(files, dirs, folder, base_name)]
    /\ pre' = files
    /\ calls' = calls + 1
    /\ UNCHANGED <<dirs, order, files, running>>

NextUnique == UniqueFilename

SpecUnique == InitUnique /\ [][NextUnique]_vars

Probed == last.op = "get_unique_filename"

\* the number of entries of the folder asked
Entries == Cardinality(ListDir(files, dirs, last.folder))

\* C21 as stated: for every folder and every base name the call returns
\* after at most (number of entries in the folder + 1) existence probes.
C21_ProbeBound ==
    Probed => /\ last.path = last.probes[Len(last.probes)]
              /\ Len(last.probes) <= Entries + 1

\* C21, for base names that can name an entry of the folder (not ".."): the
\* call returns the last path it probed, every probe before it found a
\* different entry of the folder, and so there are at most (number of
\* entries + 1) probes.
C21_ProbeBoundEntries ==
    (Probed /\ last.title # DotDot)
        => /\ last.path = last.probes[Len(last.probes)]
           /\ ~Exists(files, dirs, last.path)
           /\ \A i \in 1..(Len(last.probes) - 1) :
                 /\ DirName(last.probes[i]) = last.folder
                 /\ BaseName(last.probes[i]) \in ListDir(files, dirs, last.folder)
                 /\ \A j \in 1..(i - 1) : last.probes[j] # last.probes[i]
           /\ Len(last.probes) <= Entries + 1

\* every entry of the folder is in the way: three entries, four probes
C21_Witness ==
    /\ Probed /\ last.title = fNmd
    /\ Entries = 3
    /\ Len(last.probes) = 4

====
